---- MODULE Spec2Model ----
(***************************************************************************)
(* Model of the `database` pipeline of the symbol dependency tracker       *)
(* (crates/cli/src/main.rs): the driver loop of                            *)
(* parse_and_export_project_to_database, the graph builder Project::*      *)
(* and the collaborators it calls (scheduler, path resolver, row models),  *)
(* which live in crates whose source is not part of this tree and are      *)
(* modelled from the specification.                                        *)
(***************************************************************************)
EXTENDS Integers, Sequences, FiniteSets, TLC

VARIABLES
    project,    \* the files on disk: file name -> what the extractor and collectors yield for it
    scheduler,  \* ParserCandidateScheduler
    db,         \* the SQLite tables: module, symbol, symbol_dependency, translation, ...
    pc,         \* position of the driver loop
    cur,        \* the candidate `c` being processed ("" between iterations)
    starIdx,    \* position of the `for from in re_export_start_from` loop
    order,      \* the candidates get_one_candidate has returned, in order
    depend_on_graph,  \* portable mode: the DependOnGraph
    portable    \* portable mode: the Portable document, None until it is built

vars == <<project, scheduler, db, pc, cur, starIdx, order, depend_on_graph, portable>>

----------------------------------------------------------------------------
(* Names and paths *)

\* SYMBOL_NAME_FOR_ANONYMOUS_DEFAULT_EXPORT: not a legal identifier
Anon == "%anon"

\* canonical project root, as path components
ProjectRoot == <<"root">>

\* a specifier that names no file
Missing == "missing"

LocalVariable == "LocalVariable"
NamedExport == "NamedExport"
DefaultExport == "DefaultExport"

\* Option<T>: None is the empty set, Some(x) the singleton
None == {}
Some(x) == {x}
Unwrap(o) == CHOOSE x \in o : TRUE

\* the canonical path of the file named f
CanonicalPath(f) == ProjectRoot \o <<f>>

StartsWith(p, prefix) ==
    /\ Len(p) >= Len(prefix)
    /\ SubSeq(p, 1, Len(prefix)) = prefix

\* mutant: the prefix is never stripped
RemovePrefixKeep(canonical_path) == canonical_path

\* Project::remove_prefix
RemovePrefix(canonical_path) ==
    IF StartsWith(canonical_path, ProjectRoot)
    THEN SubSeq(canonical_path, Len(ProjectRoot) + 1, Len(canonical_path))
    ELSE canonical_path

\* PathResolver::resolve_path: Ok(canonical path) when the specifier names a
\* file of the project, Err otherwise
PathResolverResolve(current_path, import_src) ==
    IF import_src \in DOMAIN project
    THEN Some(CanonicalPath(import_src))
    ELSE None

\* mutant: the resolved path is returned with the project root still on it
ResolvePathNoStrip(current_path, import_src) ==
    PathResolverResolve(current_path, import_src)

\* Project::resolve_path
ResolvePath(current_path, import_src) ==
    {RemovePrefix(p) : p \in PathResolverResolve(current_path, import_src)}

----------------------------------------------------------------------------
(* Parser types *)

Named(n) == [tag |-> "Named", name |-> n]
Default == [tag |-> "Default", name |-> ""]
Namespace == [tag |-> "Namespace", name |-> ""]

FromOtherModule(from, from_type) == [from |-> from, from_type |-> from_type]

\* ModuleExport::Local / ModuleExport::ReExportFrom
Local(n) == [tag |-> "Local", name |-> n, from |-> "", from_type |-> Default]
ReExportFrom(from, from_type) ==
    [tag |-> "ReExportFrom", name |-> "", from |-> from, from_type |-> from_type]

\* ModuleScopedVariable
ModuleScopedVariable(depend_on, import_from) ==
    [depend_on |-> depend_on, import_from |-> import_from]

\* SymbolDependency, the per-module record
SymbolDependency(f, lvt, net, de, star) ==
    [canonical_path |-> CanonicalPath(f),
     local_variable_table |-> lvt,
     named_export_table |-> net,
     default_export |-> de,
     re_export_star_from |-> star]

----------------------------------------------------------------------------
(* Row models (dt_database::models) *)

\* a symbol row; nth stands for the row id: the nth row inserted with this
\* (module, variant, name)
Symbol(m, v, n, k) == [module |-> m, variant |-> v, name |-> n, nth |-> k]

SymbolRows(d, m, v, n) ==
    {s \in d.symbol : s.module = m /\ s.variant = v /\ s.name = n}

\* Module::get_symbol: the first row with the key, Err when there is none
GetSymbol(d, m, v, n) ==
    {s \in SymbolRows(d, m, v, n) : s.nth = 1}

\* Module::add_symbol: a plain insert
AddSymbol(d, m, v, n) ==
    [d EXCEPT !.symbol = @ \cup {Symbol(m, v, n, Cardinality(SymbolRows(d, m, v, n)) + 1)}]

\* the row add_symbol has just inserted into d
LastSymbol(d, m, v, n) == Symbol(m, v, n, Cardinality(SymbolRows(d, m, v, n)))

\* Module::get_or_create_symbol
GetOrCreateSymbol(d, m, v, n) ==
    IF GetSymbol(d, m, v, n) # {} THEN d ELSE AddSymbol(d, m, v, n)

\* Module::get_named_export_symbols
GetNamedExportSymbols(d, m) ==
    {s \in d.symbol : s.module = m /\ s.variant = NamedExport}

\* Project::get_or_create_module
GetOrCreateModule(d, path) == [d EXCEPT !.module = @ \cup {path}]

\* Project::get_module: Err when there is no such module row
GetModule(d, path) == {p \in d.module : p = path}

\* SymbolDependency::create: one row per ordered pair
CreateSymbolDependency(d, src, dst) ==
    [d EXCEPT !.symbol_dependency = @ \cup {<<src, dst>>}]

----------------------------------------------------------------------------
(* Graph builder: the three kinds of cross-module reference *)

\* mutant: the edge is added but the target symbol row is never created
LinkNamedNoCreate(d, current_symbol, import_from_module, n) ==
    CreateSymbolDependency(d, current_symbol, Symbol(import_from_module, NamedExport, n, 1))

\* mutant: the target symbol is inserted without looking it up first
LinkNamedAddSymbol(d, current_symbol, import_from_module, n) ==
    LET d1 == AddSymbol(d, import_from_module, NamedExport, n)
    IN  CreateSymbolDependency(d1, current_symbol,
                               LastSymbol(d1, import_from_module, NamedExport, n))

\* FromType::Named(n): get or create the target's NamedExport(n), add the edge
LinkNamed(d, current_symbol, import_from_module, n) ==
    CreateSymbolDependency(
        GetOrCreateSymbol(d, import_from_module, NamedExport, n),
        current_symbol, Symbol(import_from_module, NamedExport, n, 1))

\* FromType::Default: get or create the target's DefaultExport(""), add the edge
LinkDefault(d, current_symbol, import_from_module) ==
    CreateSymbolDependency(
        GetOrCreateSymbol(d, import_from_module, DefaultExport, ""),
        current_symbol, Symbol(import_from_module, DefaultExport, "", 1))

\* mutant: the reserved name is not skipped
LinkNamespaceNoSkip(d, current_symbol, import_from_module) ==
    [d EXCEPT !.symbol_dependency = @ \cup
        {<<current_symbol, s>> : s \in GetNamedExportSymbols(d, import_from_module)}]

\* mutant: the test on the reserved name is inverted
LinkNamespaceOnlyReserved(d, current_symbol, import_from_module) ==
    [d EXCEPT !.symbol_dependency = @ \cup
        {<<current_symbol, s>> :
            s \in {t \in GetNamedExportSymbols(d, import_from_module) : t.name = Anon}}]

\* FromType::Namespace: one edge per NamedExport row the target has now,
\* the reserved anonymous-default name skipped
LinkNamespace(d, current_symbol, import_from_module) ==
    [d EXCEPT !.symbol_dependency = @ \cup
        {<<current_symbol, s>> :
            s \in {t \in GetNamedExportSymbols(d, import_from_module) : t.name # Anon}}]

\* mutant: an unresolved specifier still creates a module row for the raw specifier
LinkFromOtherModuleNoDrop(d, canonical_path, current_symbol, fom) ==
    LET r == ResolvePath(canonical_path, fom.from)
        B == IF r = None THEN <<fom.from>> ELSE Unwrap(r)
        d1 == GetOrCreateModule(d, B)
    IN  IF fom.from_type.tag = "Named"
        THEN LinkNamed(d1, current_symbol, B, fom.from_type.name)
        ELSE IF fom.from_type.tag = "Default"
        THEN LinkDefault(d1, current_symbol, B)
        ELSE LinkNamespace(d1, current_symbol, B)

\* `if let Ok(from) = self.resolve_path(..) { get_or_create_module; match from_type }`
\* as written in handle_local_variable_table and handle_named_export_table
LinkFromOtherModule(d, canonical_path, current_symbol, fom) ==
    LET r == ResolvePath(canonical_path, fom.from)
    IN  IF r = None THEN d
        ELSE LET B == Unwrap(r)
                 d1 == GetOrCreateModule(d, B)
             IN  IF fom.from_type.tag = "Named"
                 THEN LinkNamed(d1, current_symbol, B, fom.from_type.name)
                 ELSE IF fom.from_type.tag = "Default"
                 THEN LinkDefault(d1, current_symbol, B)
                 ELSE LinkNamespace(d1, current_symbol, B)

\* the `for depend_on_symbol_name in depend_on.iter()` loop: every name becomes
\* a LocalVariable row of the module and the target of an edge
RECURSIVE LinkDependOn(_, _, _, _)
LinkDependOn(d, m, current_symbol, names) ==
    IF names = {} THEN d
    ELSE LET n == CHOOSE x \in names : TRUE
             d1 == GetOrCreateSymbol(d, m, LocalVariable, n)
             d2 == CreateSymbolDependency(d1, current_symbol, Symbol(m, LocalVariable, n, 1))
         IN  LinkDependOn(d2, m, current_symbol, names \ {n})

\* one iteration of the loop of handle_local_variable_table
LocalVariableEntry(d, m, rec, symbol_name) ==
    LET msv == rec.local_variable_table[symbol_name]
        current_symbol == Symbol(m, LocalVariable, symbol_name, 1)
        d1 == GetOrCreateSymbol(d, m, LocalVariable, symbol_name)
        d2 == IF msv.depend_on = None THEN d1
              ELSE LinkDependOn(d1, m, current_symbol, Unwrap(msv.depend_on))
    IN  IF msv.import_from = None THEN d2
        ELSE LinkFromOtherModule(d2, rec.canonical_path, current_symbol, Unwrap(msv.import_from))

\* Project::handle_local_variable_table, the table iterated in the order `names`
RECURSIVE HandleLocalVariableTable(_, _, _, _)
HandleLocalVariableTable(d, m, rec, names) ==
    IF names = <<>> THEN d
    ELSE HandleLocalVariableTable(LocalVariableEntry(d, m, rec, Head(names)), m, rec, Tail(names))

\* mutant: the exported symbol of a re-export is created only once its
\* specifier has resolved
NamedExportEntryLate(d, m, rec, exported_symbol_name) ==
    LET exported_from == rec.named_export_table[exported_symbol_name]
        current_symbol == Symbol(m, NamedExport, exported_symbol_name, 1)
        d1 == GetOrCreateSymbol(d, m, NamedExport, exported_symbol_name)
    IN  IF exported_from.tag = "Local"
        THEN CreateSymbolDependency(
                 GetOrCreateSymbol(d1, m, LocalVariable, exported_from.name),
                 current_symbol, Symbol(m, LocalVariable, exported_from.name, 1))
        ELSE IF ResolvePath(rec.canonical_path, exported_from.from) = None THEN d
        ELSE LinkFromOtherModule(d1, rec.canonical_path, current_symbol,
                                 FromOtherModule(exported_from.from, exported_from.from_type))

\* one iteration of the loop of handle_named_export_table
NamedExportEntry(d, m, rec, exported_symbol_name) ==
    LET exported_from == rec.named_export_table[exported_symbol_name]
        current_symbol == Symbol(m, NamedExport, exported_symbol_name, 1)
        d1 == GetOrCreateSymbol(d, m, NamedExport, exported_symbol_name)
    IN  IF exported_from.tag = "Local"
        THEN CreateSymbolDependency(
                 GetOrCreateSymbol(d1, m, LocalVariable, exported_from.name),
                 current_symbol, Symbol(m, LocalVariable, exported_from.name, 1))
        ELSE LinkFromOtherModule(d1, rec.canonical_path, current_symbol,
                                 FromOtherModule(exported_from.from, exported_from.from_type))

\* Project::handle_named_export_table, the table iterated in the order `names`
RECURSIVE HandleNamedExportTable(_, _, _, _)
HandleNamedExportTable(d, m, rec, names) ==
    IF names = <<>> THEN d
    ELSE HandleNamedExportTable(NamedExportEntry(d, m, rec, Head(names)), m, rec, Tail(names))

\* Project::handle_default_export: [ok, db]; ok is FALSE when the
\* unreachable!() arm is entered
HandleDefaultExport(d, m, rec) ==
    IF rec.default_export = None THEN [ok |-> TRUE, db |-> d]
    ELSE LET default_export == Unwrap(rec.default_export)
             current_symbol == Symbol(m, DefaultExport, "", 1)
             d1 == GetOrCreateSymbol(d, m, DefaultExport, "")
         IN  IF default_export.tag = "Local"
             THEN [ok |-> TRUE,
                   db |-> CreateSymbolDependency(
                              GetOrCreateSymbol(d1, m, LocalVariable, default_export.name),
                              current_symbol, Symbol(m, LocalVariable, default_export.name, 1))]
             ELSE LET r == ResolvePath(rec.canonical_path, default_export.from)
                  IN  IF r = None THEN [ok |-> TRUE, db |-> d1]
                      ELSE LET B == Unwrap(r)
                               d2 == GetOrCreateModule(d1, B)
                           IN  IF default_export.from_type.tag = "Named"
                               THEN [ok |-> TRUE,
                                     db |-> LinkNamed(d2, current_symbol, B,
                                                      default_export.from_type.name)]
                               ELSE IF default_export.from_type.tag = "Default"
                               THEN [ok |-> TRUE, db |-> LinkDefault(d2, current_symbol, B)]
                               ELSE [ok |-> FALSE, db |-> d2]

\* the row of `rows` the loop over named_export_symbols visits first: rows of
\* one name in insertion order
FirstRow(rows) ==
    CHOOSE s \in rows : \A t \in rows : t.name = s.name => s.nth <= t.nth

\* mutant: the mirrored symbol is looked up before it is inserted
MirrorGetOrCreate(d, m, depend_on_symbol) ==
    CreateSymbolDependency(
        GetOrCreateSymbol(d, m, NamedExport, depend_on_symbol.name),
        Symbol(m, NamedExport, depend_on_symbol.name, 1), depend_on_symbol)

\* mutant: the mirrored symbol is inserted but no edge is added
MirrorNoEdge(d, m, depend_on_symbol) ==
    AddSymbol(d, m, NamedExport, depend_on_symbol.name)

\* the body of `if depend_on_symbol.name != SYMBOL_NAME_FOR_ANONYMOUS_DEFAULT_EXPORT`:
\* add_symbol on the current module, then the edge to the target's symbol
Mirror(d, m, depend_on_symbol) ==
    LET d1 == AddSymbol(d, m, NamedExport, depend_on_symbol.name)
    IN  CreateSymbolDependency(d1, LastSymbol(d1, m, NamedExport, depend_on_symbol.name),
                               depend_on_symbol)

\* mutant: the reserved name is mirrored like any other
MirrorNamedExportsNoSkip(d, m, rows) ==
    LET RECURSIVE go(_, _)
        go(dd, rs) == IF rs = {} THEN dd
                      ELSE go(Mirror(dd, m, FirstRow(rs)), rs \ {FirstRow(rs)})
    IN  go(d, rows)

\* the `for depend_on_symbol in named_export_symbols.iter()` loop of
\* handle_re_export_star_from
RECURSIVE MirrorNamedExports(_, _, _)
MirrorNamedExports(d, m, rows) ==
    IF rows = {} THEN d
    ELSE LET s == FirstRow(rows)
             d1 == IF s.name # Anon THEN Mirror(d, m, s) ELSE d
         IN  MirrorNamedExports(d1, m, rows \ {s})

\* mutant: only the named exports the target does not itself take from
\* another module are mirrored
ReExportStarFromOwnOnly(d, m, rec, from) ==
    LET r == ResolvePath(rec.canonical_path, from)
    IN  IF r = None THEN [ok |-> TRUE, db |-> d]
        ELSE IF GetModule(d, Unwrap(r)) = None THEN [ok |-> FALSE, db |-> d]
        ELSE [ok |-> TRUE,
              db |-> MirrorNamedExports(d, m,
                        {s \in GetNamedExportSymbols(d, Unwrap(r)) :
                            \A e \in d.symbol_dependency :
                                e[1] = s => e[2].module = Unwrap(r)})]

\* one iteration of `for from in re_export_start_from.iter()`: [ok, db];
\* ok is FALSE when get_module returns Err
ReExportStarFrom(d, m, rec, from) ==
    LET r == ResolvePath(rec.canonical_path, from)
    IN  IF r = None THEN [ok |-> TRUE, db |-> d]
        ELSE IF GetModule(d, Unwrap(r)) = None THEN [ok |-> FALSE, db |-> d]
        ELSE [ok |-> TRUE,
              db |-> MirrorNamedExports(d, m, GetNamedExportSymbols(d, Unwrap(r)))]

\* the specifiers of re_export_star_from, in order (none when the field is None)
StarList(rec) ==
    IF rec.re_export_star_from = None THEN <<>> ELSE Unwrap(rec.re_export_star_from)

----------------------------------------------------------------------------
(* Overlays *)

\* the `for key in i18n_keys.iter()` loop: a key with no translation row is skipped
LinkTranslations(d, symbol, i18n_keys) ==
    [d EXCEPT !.translation_usage = @ \cup
        {<<key, symbol>> : key \in {k \in i18n_keys : k \in d.translation}}]

\* mutant: a key with no translation row is an error, like an unknown symbol
RECURSIVE AddI18nUsageStrict(_, _, _, _)
AddI18nUsageStrict(d, m, i18n_usage, names) ==
    IF names = <<>> THEN [ok |-> TRUE, db |-> d]
    ELSE LET symbol == GetSymbol(d, m, LocalVariable, Head(names))
         IN  IF symbol = None \/ ~(i18n_usage[Head(names)] \subseteq d.translation)
             THEN [ok |-> FALSE, db |-> d]
             ELSE AddI18nUsageStrict(
                      [d EXCEPT !.translation_usage = @ \cup
                          {<<key, Unwrap(symbol)>> : key \in i18n_usage[Head(names)]}],
                      m, i18n_usage, Tail(names))

\* Project::add_i18n_usage, the map iterated in the order `names`: [ok, db];
\* ok is FALSE when get_symbol returns Err
RECURSIVE AddI18nUsage(_, _, _, _)
AddI18nUsage(d, m, i18n_usage, names) ==
    IF names = <<>> THEN [ok |-> TRUE, db |-> d]
    ELSE LET symbol == GetSymbol(d, m, LocalVariable, Head(names))
         IN  IF symbol = None THEN [ok |-> FALSE, db |-> d]
             ELSE AddI18nUsage(LinkTranslations(d, Unwrap(symbol), i18n_usage[Head(names)]),
                               m, i18n_usage, Tail(names))

\* mutant: a route target with no symbol row is skipped, like an unknown key
RECURSIVE LinkRouteSkipUnknown(_, _, _, _)
LinkRouteSkipUnknown(d, m, path, depend_on) ==
    IF depend_on = <<>> THEN [ok |-> TRUE, db |-> d]
    ELSE LET symbol == GetSymbol(d, m, LocalVariable, Head(depend_on))
         IN  IF symbol = None THEN LinkRouteSkipUnknown(d, m, path, Tail(depend_on))
             ELSE LinkRouteSkipUnknown(
                      [d EXCEPT !.route_usage = @ \cup {<<path, Unwrap(symbol)>>}],
                      m, path, Tail(depend_on))

\* the `for symbol_name in depend_on.iter()` loop of add_route_usage
RECURSIVE LinkRoute(_, _, _, _)
LinkRoute(d, m, path, depend_on) ==
    IF depend_on = <<>> THEN [ok |-> TRUE, db |-> d]
    ELSE LET symbol == GetSymbol(d, m, LocalVariable, Head(depend_on))
         IN  IF symbol = None THEN [ok |-> FALSE, db |-> d]
             ELSE LinkRoute([d EXCEPT !.route_usage = @ \cup {<<path, Unwrap(symbol)>>}],
                            m, path, Tail(depend_on))

\* Project::add_route_usage: [ok, db]
RECURSIVE AddRouteUsage(_, _, _)
AddRouteUsage(d, m, route_usage) ==
    IF route_usage = <<>> THEN [ok |-> TRUE, db |-> d]
    ELSE LET route == Head(route_usage)
             r == LinkRoute([d EXCEPT !.route = @ \cup {route.path}], m,
                            route.path, route.depend_on)
         IN  IF r.ok THEN AddRouteUsage(r.db, m, Tail(route_usage)) ELSE r

----------------------------------------------------------------------------
(* Portable mode: the used-by inverter (dt_core::graph) *)

\* a symbol graph: nodes are (module, variant, name) symbols, edges pairs of them
Graph(nodes, edges) == [nodes |-> nodes, edges |-> edges]

\* mutant: only the endpoints of edges are kept as nodes
UsedByGraphFromEdgesOnly(g) ==
    Graph({e[1] : e \in g.edges} \cup {e[2] : e \in g.edges},
          {<<e[2], e[1]>> : e \in g.edges})

\* the inverter's pass over the edges: (dst -> src) is emitted for each (src -> dst)
RECURSIVE EmitReversed(_, _)
EmitReversed(used_by, edges) ==
    IF edges = {} THEN used_by
    ELSE LET e == CHOOSE x \in edges : TRUE
         IN  EmitReversed([used_by EXCEPT !.edges = @ \cup {<<e[2], e[1]>>}], edges \ {e})

\* UsedByGraph::from(&depend_on_graph): every node kept, every edge reversed
UsedByGraphFrom(g) == EmitReversed(Graph(g.nodes, {}), g.edges)

\* Portable::new
Portable(project_root, translation_json, i18n_to_symbol, symbol_to_route, used_by_graph) ==
    [project_root |-> project_root,
     translations |-> translation_json,
     i18n_to_symbol |-> i18n_to_symbol,
     symbol_to_routes |-> symbol_to_route,
     used_by_graph |-> used_by_graph]

----------------------------------------------------------------------------
(* Scheduler (dt_core::scheduler::ParserCandidateScheduler) *)

\* lexicographic order of the file names
FileOrder == <<"a", "b", "c">>
Rank(f) == CHOOSE i \in 1..Len(FileOrder) : FileOrder[i] = f

\* the specifiers of f under a namespace-import, `export * as` or star-re-export form
HardSpecifiers(rec) ==
    {Unwrap(rec.local_variable_table[n].import_from).from :
        n \in {k \in DOMAIN rec.local_variable_table :
                 /\ rec.local_variable_table[k].import_from # None
                 /\ Unwrap(rec.local_variable_table[k].import_from).from_type.tag = "Namespace"}}
    \cup
    {rec.named_export_table[n].from :
        n \in {k \in DOMAIN rec.named_export_table :
                 /\ rec.named_export_table[k].tag = "ReExportFrom"
                 /\ rec.named_export_table[k].from_type.tag = "Namespace"}}
    \cup
    {StarList(rec)[i] : i \in 1..Len(StarList(rec))}

\* precondition extraction: the resolved hard predecessors of file f
HardPredecessors(f) ==
    {g \in DOMAIN project : g \in HardSpecifiers(project[f].symbol_dependency)}

\* the files reachable from the set `from` over hard-predecessor edges that stay in S
RECURSIVE ReachIn(_, _)
ReachIn(S, from) ==
    LET more == {g \in S : \E f \in from : g \in HardPredecessors(f)} \ from
    IN  IF more = {} THEN from ELSE ReachIn(S, from \cup more)

\* f lies on a hard-predecessor cycle all of whose files are in S
OnCycleIn(S, f) ==
    /\ f \in S
    /\ \E g \in HardPredecessors(f) \cap S : f \in ReachIn(S, {g})

Unreleased(s) == DOMAIN s.pending \ s.released

\* ParserCandidateScheduler::new
SchedulerNew ==
    [pending |-> [f \in DOMAIN project |-> Cardinality(HardPredecessors(f))],
     ready |-> {f \in DOMAIN project : HardPredecessors(f) = {}},
     released |-> {},
     parsed |-> {},
     remaining |-> Cardinality(DOMAIN project)]

\* mutant: with nothing ready the smallest unreleased file is released,
\* on a cycle or not
CycleBreakAny(s) ==
    {f \in Unreleased(s) : \A g \in Unreleased(s) : Rank(f) <= Rank(g)}

\* cycle policy: the lexicographically smallest unreleased file that lies on a
\* cycle of unreleased files
CycleBreak(s) ==
    {f \in Unreleased(s) :
        /\ OnCycleIn(Unreleased(s), f)
        /\ \A g \in Unreleased(s) : OnCycleIn(Unreleased(s), g) => Rank(f) <= Rank(g)}

\* mutant: every unreleased file counts as ready
CandidatesAnyUnreleased(s) == Unreleased(s)

\* what get_one_candidate may return: any member of the ready set; with none
\* ready, the cycle-break choice; nothing when all are released
Candidates(s) ==
    IF s.ready # {} THEN s.ready ELSE CycleBreak(s)

\* mutant: the released file stays in the ready set
ReleaseKeepReady(s, c) ==
    [s EXCEPT !.released = @ \cup {c}, !.remaining = @ - 1]

\* mutant: the remaining count is not decremented
ReleaseNoCount(s, c) ==
    [s EXCEPT !.ready = @ \ {c}, !.released = @ \cup {c}]

\* get_one_candidate returning Some(c)
Release(s, c) ==
    [s EXCEPT !.ready = @ \ {c}, !.released = @ \cup {c}, !.remaining = @ - 1]

\* mutant: successors are promoted without looking at their count
MarkParsedPromoteAll(s, c) ==
    [s EXCEPT !.parsed = @ \cup {c},
              !.ready = @ \cup {f \in Unreleased(s) : c \in HardPredecessors(f)}]

\* mark_candidate_as_parsed: decrement the count of every successor and
\* promote the unreleased ones that reach zero
MarkParsed(s, c) ==
    LET pending == [f \in DOMAIN s.pending |->
                      IF c \in HardPredecessors(f) /\ s.pending[f] > 0
                      THEN s.pending[f] - 1 ELSE s.pending[f]]
    IN  [s EXCEPT !.parsed = @ \cup {c},
                  !.pending = pending,
                  !.ready = @ \cup {f \in Unreleased(s) :
                                      c \in HardPredecessors(f) /\ pending[f] = 0}]

\* get_total_remaining_candidate_count
TotalRemaining(s) == s.remaining

----------------------------------------------------------------------------
(* Driver: parse_and_export_project_to_database *)

\* the orders in which a table with the key set S can be iterated
Orders(S) ==
    {q \in [1..Cardinality(S) -> S] : \A i, j \in 1..Cardinality(S) : q[i] = q[j] => i = j}

Rec == project[cur].symbol_dependency

\* the `module` add_module works on
CurModule == RemovePrefix(Rec.canonical_path)

\* scheduler.get_one_candidate() returns Some(c)
GetOneCandidate ==
    /\ pc = "next"
    /\ \E c \in Candidates(scheduler) :
        /\ scheduler' = Release(scheduler, c)
        /\ cur' = c
        /\ order' = Append(order, c)
    /\ pc' = "add_module"
    /\ UNCHANGED <<project, depend_on_graph, portable, db, starIdx>>

\* scheduler.get_one_candidate() returns None: the loop breaks
Break ==
    /\ pc = "next"
    /\ Candidates(scheduler) = {}
    /\ pc' = "done"
    /\ UNCHANGED <<project, depend_on_graph, portable, scheduler, db, cur, starIdx, order>>

\* add_module: get_or_create_module for the module's own stripped path
AddModule ==
    /\ pc = "add_module"
    /\ db' = GetOrCreateModule(db, CurModule)
    /\ pc' = "local"
    /\ UNCHANGED <<project, depend_on_graph, portable, scheduler, cur, starIdx, order>>

LocalVariableTable ==
    /\ pc = "local"
    /\ \E names \in Orders(DOMAIN Rec.local_variable_table) :
        db' = HandleLocalVariableTable(db, CurModule, Rec, names)
    /\ pc' = "named"
    /\ UNCHANGED <<project, depend_on_graph, portable, scheduler, cur, starIdx, order>>

NamedExportTable ==
    /\ pc = "named"
    /\ \E names \in Orders(DOMAIN Rec.named_export_table) :
        db' = HandleNamedExportTable(db, CurModule, Rec, names)
    /\ pc' = "default"
    /\ UNCHANGED <<project, depend_on_graph, portable, scheduler, cur, starIdx, order>>

DefaultExportStep ==
    /\ pc = "default"
    /\ LET r == HandleDefaultExport(db, CurModule, Rec)
       IN  /\ db' = r.db
           /\ pc' = IF r.ok THEN "star" ELSE "panicked"
    /\ starIdx' = 1
    /\ UNCHANGED <<project, depend_on_graph, portable, scheduler, cur, order>>

\* mutant: the error of one specifier is dropped and the loop goes on
ReExportStarKeepGoing ==
    /\ pc = "star"
    /\ IF starIdx <= Len(StarList(Rec))
       THEN /\ db' = ReExportStarFrom(db, CurModule, Rec, StarList(Rec)[starIdx]).db
            /\ pc' = "star"
            /\ starIdx' = starIdx + 1
       ELSE /\ pc' = "i18n"
            /\ UNCHANGED <<db, starIdx>>
    /\ UNCHANGED <<project, depend_on_graph, portable, scheduler, cur, order>>

\* handle_re_export_star_from, one specifier of the list per step; past the
\* end of the list add_module returns Ok(module)
ReExportStar ==
    /\ pc = "star"
    /\ IF starIdx <= Len(StarList(Rec))
       THEN LET r == ReExportStarFrom(db, CurModule, Rec, StarList(Rec)[starIdx])
            IN  /\ db' = r.db
                /\ pc' = IF r.ok THEN "star" ELSE "failed"
                /\ starIdx' = starIdx + 1
       ELSE /\ pc' = "i18n"
            /\ UNCHANGED <<db, starIdx>>
    /\ UNCHANGED <<project, depend_on_graph, portable, scheduler, cur, order>>

I18nUsage ==
    /\ pc = "i18n"
    /\ \E names \in Orders(DOMAIN project[cur].i18n_usage) :
        LET r == AddI18nUsage(db, CurModule, project[cur].i18n_usage, names)
        IN  /\ db' = r.db
            /\ pc' = IF r.ok THEN "route" ELSE "failed"
    /\ UNCHANGED <<project, depend_on_graph, portable, scheduler, cur, starIdx, order>>

RouteUsage ==
    /\ pc = "route"
    /\ LET r == AddRouteUsage(db, CurModule, project[cur].route_usage)
       IN  /\ db' = r.db
           /\ pc' = IF r.ok THEN "mark" ELSE "failed"
    /\ UNCHANGED <<project, depend_on_graph, portable, scheduler, cur, starIdx, order>>

\* mutant: the driver forgets to acknowledge the candidate
MarkCandidateAsParsedForgotten ==
    /\ pc = "mark"
    /\ pc' = "next"
    /\ cur' = ""
    /\ UNCHANGED <<project, depend_on_graph, portable, scheduler, db, starIdx, order>>

\* scheduler.mark_candidate_as_parsed(c)
MarkCandidateAsParsed ==
    /\ pc = "mark"
    /\ scheduler' = MarkParsed(scheduler, cur)
    /\ pc' = "next"
    /\ cur' = ""
    /\ UNCHANGED <<project, depend_on_graph, portable, db, starIdx, order>>

Next ==
    \/ GetOneCandidate
    \/ Break
    \/ AddModule
    \/ LocalVariableTable
    \/ NamedExportTable
    \/ DefaultExportStep
    \/ ReExportStar
    \/ I18nUsage
    \/ RouteUsage
    \/ MarkCandidateAsParsed

----------------------------------------------------------------------------
(* The driver loop as a function of the project *)

\* one order in which a table with the key set S is iterated
AnOrder(S) == CHOOSE q \in Orders(S) : TRUE

\* Project::handle_re_export_star_from over the whole list: [ok, db]; the
\* first specifier whose get_module fails ends it
RECURSIVE HandleReExportStarFrom(_, _, _, _)
HandleReExportStarFrom(d, m, rec, froms) ==
    IF froms = <<>> THEN [ok |-> TRUE, db |-> d]
    ELSE LET r == ReExportStarFrom(d, m, rec, Head(froms))
         IN  IF r.ok THEN HandleReExportStarFrom(r.db, m, rec, Tail(froms)) ELSE r

\* one pass of the loop body for file f: add_module, add_i18n_usage,
\* add_route_usage; [pc, db] with pc the position the driver is left at
\* ("mark" when all three returned Ok)
LoopBody(d, f) ==
    LET rec == project[f].symbol_dependency
        m == RemovePrefix(rec.canonical_path)
        d0 == GetOrCreateModule(d, m)
        d1 == HandleLocalVariableTable(d0, m, rec, AnOrder(DOMAIN rec.local_variable_table))
        d2 == HandleNamedExportTable(d1, m, rec, AnOrder(DOMAIN rec.named_export_table))
        r3 == HandleDefaultExport(d2, m, rec)
        r4 == HandleReExportStarFrom(r3.db, m, rec, StarList(rec))
        r5 == AddI18nUsage(r4.db, m, project[f].i18n_usage,
                           AnOrder(DOMAIN project[f].i18n_usage))
        r6 == AddRouteUsage(r5.db, m, project[f].route_usage)
    IN  IF ~r3.ok THEN [pc |-> "panicked", db |-> r3.db]
        ELSE IF ~r4.ok THEN [pc |-> "failed", db |-> r4.db]
        ELSE IF ~r5.ok THEN [pc |-> "failed", db |-> r5.db]
        ELSE IF ~r6.ok THEN [pc |-> "failed", db |-> r6.db]
        ELSE [pc |-> "mark", db |-> r6.db]

\* the candidate of smallest name among those get_one_candidate may return
FirstCandidate(s) ==
    CHOOSE f \in Candidates(s) : \A g \in Candidates(s) : Rank(f) <= Rank(g)

\* the loop run to its end from scheduler state s and tables d, the scheduler
\* handing out the smallest candidate each time: [pc, db] when the loop is left
RECURSIVE RunLoop(_, _)
RunLoop(s, d) ==
    IF Candidates(s) = {} THEN [pc |-> "done", db |-> d]
    ELSE LET c == FirstCandidate(s)
             r == LoopBody(d, c)
         IN  IF r.pc = "mark" THEN RunLoop(MarkParsed(Release(s, c), c), r.db) ELSE r

----------------------------------------------------------------------------
(* The projects checked *)

\* longest re_export_star_from list
MaxStar == 2

\* most declarations of a project that depend on, import or export something
\* (plain locals are not counted)
MaxEntries == 3

\* what the collectors yield for one file
File(rec, i18n, routes) ==
    [symbol_dependency |-> rec, i18n_usage |-> i18n, route_usage |-> routes]

Plain == ModuleScopedVariable(None, None)
DependsOn(names) == ModuleScopedVariable(Some(names), None)
ImportFrom(r) == ModuleScopedVariable(None, Some(r))

FromTypes == {Named("x"), Default, Namespace}

\* the references to the files S, and one to a file that does not exist
Refs(S) ==
    {FromOtherModule(s, t) : s \in S, t \in FromTypes}
    \cup {FromOtherModule(Missing, Namespace)}

\* `const x = 1`, `const y = x`, `import .. as n from S` (then `const y = n`)
LocalVariableTables(S) ==
    {<<>>,
     [n \in {"x"} |-> Plain],
     [n \in {"x", "y"} |-> IF n = "x" THEN Plain ELSE DependsOn({"x"})],
     [n \in {"n", "y"} |-> IF n = "n" THEN ImportFrom(FromOtherModule(Missing, Default))
                                      ELSE DependsOn({"n"})]}
    \cup {[n \in {"x", "n"} |-> IF n = "x" THEN Plain ELSE ImportFrom(r)] : r \in Refs(S)}

\* `export { x }`, `export { x as "%anon" }`, `export { .. as z } from S`
NamedExportTables(S) ==
    {<<>>, [n \in {"x"} |-> Local("x")], [n \in {Anon} |-> Local("x")]}
    \cup {[n \in {"z"} |-> ReExportFrom(r.from, r.from_type)] : r \in Refs(S)}

\* `export default x`, `export { .. as default } from S`
DefaultExports(S) ==
    {None, Some(Local("x"))}
    \cup {Some(ReExportFrom(r.from, r.from_type)) : r \in Refs(S)}

\* `export * from S`, up to MaxStar times
StarLists(S) ==
    {None} \cup {Some(q) : q \in UNION {[1..k -> S \cup {Missing}] : k \in 1..MaxStar}}

\* the local names a record refers to
LocalsUsed(rec) ==
    UNION {Unwrap(rec.local_variable_table[n].depend_on) :
             n \in {k \in DOMAIN rec.local_variable_table :
                      rec.local_variable_table[k].depend_on # None}}
    \cup {rec.named_export_table[n].name :
             n \in {k \in DOMAIN rec.named_export_table :
                      rec.named_export_table[k].tag = "Local"}}
    \cup {e.name : e \in {d \in rec.default_export : d.tag = "Local"}}

\* what the extractor guarantees: a local a record refers to is a key of its
\* local-variable table
WellFormed(rec) == LocalsUsed(rec) \subseteq DOMAIN rec.local_variable_table

\* the number of declarations of a record, plain locals not counted
Entries(rec) ==
    Cardinality({n \in DOMAIN rec.local_variable_table : rec.local_variable_table[n] # Plain})
    + Cardinality(DOMAIN rec.named_export_table)
    + Cardinality(rec.default_export)
    + Len(StarList(rec))

\* the records of file f that refer to the files S
Records(f, S) ==
    {r \in {SymbolDependency(f, lvt, net, de, star) :
                lvt \in LocalVariableTables(S), net \in NamedExportTables(S),
                de \in DefaultExports(S), star \in StarLists(S)} :
        WellFormed(r) /\ Entries(r) <= MaxEntries}

\* the translation table loaded by add_translation before the loop
Translations == {"hello"}

\* the tables after Project::new and add_translation
DbNew ==
    [module |-> {}, symbol |-> {}, symbol_dependency |-> {},
     translation |-> Translations, translation_usage |-> {},
     route |-> {}, route_usage |-> {}]

\* the state when the driver loop is entered, for the files `files`
Start(files) ==
    /\ project = files
    /\ scheduler = SchedulerNew
    /\ db = DbNew
    /\ pc = "next"
    /\ cur = ""
    /\ starIdx = 1
    /\ order = <<>>
    /\ depend_on_graph = Graph({}, {})
    /\ portable = None

\* two files that refer to each other and to a missing file
Init ==
    \E ra \in Records("a", {"b"}), rb \in Records("b", {"a"}) :
        /\ Entries(ra) + Entries(rb) <= MaxEntries
        /\ Start([f \in {"a", "b"} |->
                    IF f = "a" THEN File(ra, <<>>, <<>>) ELSE File(rb, <<>>, <<>>)])

Spec == Init /\ [][Next]_vars

\* the records of file f with any local-variable table, any named-export table
\* and any default export together, and at most one `export * from S`
WideRecords(f, S) ==
    {r \in {SymbolDependency(f, lvt, net, de, star) :
                lvt \in LocalVariableTables(S), net \in NamedExportTables(S),
                de \in DefaultExports(S), star \in {None} \cup {Some(<<s>>) : s \in S}} :
        WellFormed(r)}

\* the records of a file f that is imported: it declares nothing, or a local
\* that it exports by name or as default, or it re-exports a name of S
ImportedRecords(f, S) ==
    {r \in {SymbolDependency(f, lvt, net, de, None) :
                lvt \in {<<>>, [n \in {"x"} |-> Plain]},
                net \in {<<>>, [n \in {"x"} |-> Local("x")]}
                        \cup {[n \in {"z"} |-> ReExportFrom(s, Named("x"))] : s \in S},
                de \in {None, Some(Local("x"))}} :
        WellFormed(r)}

\* a file with every combination of declarations, and the file it imports
InitWide ==
    \E ra \in WideRecords("a", {"b"}), rb \in ImportedRecords("b", {"a"}) :
        Start([f \in {"a", "b"} |->
                 IF f = "a" THEN File(ra, <<>>, <<>>) ELSE File(rb, <<>>, <<>>)])

SpecWide == InitWide /\ [][Next]_vars

\* the records of file f whose only cross-module forms are a namespace import
\* and a star re-export, of the specifiers S
HardRecords(f, S) ==
    {SymbolDependency(f, lvt, [n \in {"x"} |-> Local("x")], None, star) :
        lvt \in {[n \in {"x"} |-> Plain]}
                \cup {[n \in {"x", "n"} |-> IF n = "x" THEN Plain
                                          ELSE ImportFrom(FromOtherModule(s, Namespace))] : s \in S},
        star \in {None} \cup {Some(<<s>>) : s \in S}}

\* three files, each exporting x, with namespace imports and star re-exports
\* among them: chains, diamonds, self loops and cycles
InitSched ==
    \E ra \in HardRecords("a", {"a", "b", "c"}),
       rb \in HardRecords("b", {"a", "b", "c"}),
       rc \in HardRecords("c", {"a", "b", "c"}) :
        Start([f \in {"a", "b", "c"} |->
                 File(IF f = "a" THEN ra ELSE IF f = "b" THEN rb ELSE rc, <<>>, <<>>)])

SpecSched == InitSched /\ [][Next]_vars

\* the driver is a straight loop: it takes its next step whenever it has one
SpecSchedFair == InitSched /\ [][Next]_vars /\ WF_vars(Next)

\* most routes a file declares
MaxRoutes == 1

\* Route { path, depend_on }
Route(path, depend_on) == [path |-> path, depend_on |-> depend_on]

\* what collect_translation yields: some of the names x (a local of the file)
\* and q (no local of the file), each with keys of and not of the translation table
I18nUsages ==
    UNION {[D -> {{"hello"}, {"nokey"}, {"hello", "nokey"}}] : D \in SUBSET {"x", "q"}}

\* what collect_route_dependency yields: up to MaxRoutes routes whose targets
\* are x, q or both, in either order
RouteUsages ==
    UNION {[1..k -> {Route(p, t) : p \in {"/p", "/q"},
                                   t \in {<<"x">>, <<"q">>, <<"x", "q">>, <<"q", "x">>}}] :
             k \in 0..MaxRoutes}

\* two files that declare the local x; the first uses translations and routes
InitOverlay ==
    \E i18n \in I18nUsages, routes \in RouteUsages :
        Start([f \in {"a", "b"} |->
                 IF f = "a"
                 THEN File(SymbolDependency("a", [n \in {"x"} |-> Plain],
                                            [n \in {"x"} |-> Local("x")], None, None),
                           i18n, routes)
                 ELSE File(SymbolDependency("b", [n \in {"x"} |-> Plain], <<>>, None, None),
                           <<>>, <<>>)])

SpecOverlay == InitOverlay /\ [][Next]_vars

\* the records of file f that may declare x, export it under a name or under
\* the reserved name, re-export a name of a missing file, and star-re-export
\* the file s, alone or after a missing file
StarRecords(f, s) ==
    {r \in {SymbolDependency(f, lvt, net, None, star) :
                lvt \in {<<>>, [n \in {"x"} |-> Plain]},
                net \in {<<>>, [n \in {"x"} |-> Local("x")], [n \in {Anon} |-> Local("x")],
                         [n \in {"z"} |-> ReExportFrom(Missing, Named("x"))]},
                star \in {None, Some(<<s>>), Some(<<Missing, s>>)}} :
        WellFormed(r)}

\* three files: a may star-re-export b, b may star-re-export c and c may
\* star-re-export a
InitStar ==
    \E ra \in StarRecords("a", "b"), rb \in StarRecords("b", "c"),
       rc \in StarRecords("c", "a") :
        Start([f \in {"a", "b", "c"} |->
                 File(IF f = "a" THEN ra ELSE IF f = "b" THEN rb ELSE rc, <<>>, <<>>)])

SpecStar == InitStar /\ [][Next]_vars

\* a imports x or the default of b, or re-exports x of b; b may export x and
\* may star-re-export c; c may export x and may namespace-import or
\* star-re-export b
InitOrder ==
    \E la \in {[n \in {"x"} |-> Plain]}
                \cup {[n \in {"x", "n"} |-> IF n = "x" THEN Plain
                                          ELSE ImportFrom(FromOtherModule("b", t))] :
                         t \in {Named("x"), Default}},
       na \in {<<>>, [n \in {"z"} |-> ReExportFrom("b", Named("x"))]},
       nb \in {<<>>, [n \in {"x"} |-> Local("x")]},
       sb \in {None, Some(<<"c">>)},
       lc \in {[n \in {"x"} |-> Plain],
               [n \in {"x", "n"} |-> IF n = "x" THEN Plain
                                     ELSE ImportFrom(FromOtherModule("b", Namespace))]},
       nc \in {<<>>, [n \in {"x"} |-> Local("x")]},
       sc \in {None, Some(<<"b">>)} :
        Start([f \in {"a", "b", "c"} |->
                 File(IF f = "a" THEN SymbolDependency("a", la, na, None, None)
                      ELSE IF f = "b"
                      THEN SymbolDependency("b", [n \in {"x"} |-> Plain], nb, None, sb)
                      ELSE SymbolDependency("c", lc, nc, None, sc),
                      <<>>, <<>>)])

SpecOrder == InitOrder /\ [][Next]_vars

----------------------------------------------------------------------------
(* The driver with extraction that can fail *)

\* to_str, get_module_ast or collect_symbol_dependency returns Err for the
\* candidate just handed out (an unreadable file, a syntax error): the `?`
\* leaves the function before add_module
ExtractionFails ==
    /\ pc = "add_module"
    /\ pc' = "unparsed"
    /\ UNCHANGED <<project, depend_on_graph, portable, scheduler, db, cur, starIdx, order>>

NextDriver ==
    \/ GetOneCandidate
    \/ Break
    \/ ExtractionFails
    \/ AddModule
    \/ LocalVariableTable
    \/ NamedExportTable
    \/ DefaultExportStep
    \/ ReExportStar
    \/ I18nUsage
    \/ RouteUsage
    \/ MarkCandidateAsParsed

\* the projects of the scheduler runs and the projects with overlays
InitDriver == InitSched \/ InitOverlay

SpecDriver == InitDriver /\ [][NextDriver]_vars

----------------------------------------------------------------------------
(* The symbol-dependency extractor (dt_core::parser::collect_symbol_dependency) *)

\* most top-level statements of a module
MaxStatements == 2

\* a top-level statement: its kind, the local or exported name it binds, the
\* name it takes from the other module, the specifier
Statement(kind, local, name, from) ==
    [kind |-> kind, local |-> local, name |-> name, from |-> from]

\* [ok, rec]: the record so far, or ExtractorError
Extracted(rec) == [ok |-> TRUE, rec |-> rec]
ExtractorError(rec) == [ok |-> FALSE, rec |-> rec]

\* table with the entry k -> v added
Put(table, k, v) == [n \in DOMAIN table \cup {k} |-> IF n = k THEN v ELSE table[n]]

\* a new local binding; a duplicate local binding is an error
AddLocal(rec, n, msv) ==
    IF n \in DOMAIN rec.local_variable_table THEN ExtractorError(rec)
    ELSE Extracted([rec EXCEPT !.local_variable_table = Put(@, n, msv)])

\* a new named export; a duplicate named export is an error
AddNamedExport(rec, n, e) ==
    IF n \in DOMAIN rec.named_export_table THEN ExtractorError(rec)
    ELSE Extracted([rec EXCEPT !.named_export_table = Put(@, n, e)])

\* the default export; a second one is an error
SetDefaultExport(rec, e) ==
    IF rec.default_export # None THEN ExtractorError(rec)
    ELSE Extracted([rec EXCEPT !.default_export = Some(e)])

\* the binding of the other module a re-export takes
ImportedAs(name) == IF name = "default" THEN Default ELSE Named(name)

\* mutant: `export * as default from S` becomes the default export
ExportNamespaceFromAsDefault(rec, st) ==
    IF st.local = "default"
    THEN SetDefaultExport(rec, ReExportFrom(st.from, Namespace))
    ELSE AddNamedExport(rec, st.local, ReExportFrom(st.from, Namespace))

\* `export * as N from S`: N -> ReExportFrom{S, Namespace}; as a default export
\* the combination is rejected
ExportNamespaceFrom(rec, st) ==
    IF st.local = "default" THEN ExtractorError(rec)
    ELSE AddNamedExport(rec, st.local, ReExportFrom(st.from, Namespace))

\* the rule for one top-level statement
CollectStatement(rec, st) ==
    CASE st.kind = "const" -> AddLocal(rec, st.local, Plain)
      [] st.kind = "export_const" ->
            LET r == AddLocal(rec, st.local, Plain)
            IN  IF r.ok THEN AddNamedExport(r.rec, st.local, Local(st.local)) ELSE r
      [] st.kind = "import_default" ->
            AddLocal(rec, st.local, ImportFrom(FromOtherModule(st.from, Default)))
      [] st.kind = "import_named" ->
            AddLocal(rec, st.local, ImportFrom(FromOtherModule(st.from, Named(st.name))))
      [] st.kind = "import_namespace" ->
            AddLocal(rec, st.local, ImportFrom(FromOtherModule(st.from, Namespace)))
      [] st.kind = "export_default_expr" ->
            LET r == AddLocal(rec, Anon, Plain)
            IN  IF r.ok THEN SetDefaultExport(r.rec, Local(Anon)) ELSE r
      [] st.kind = "export_default_ident" -> SetDefaultExport(rec, Local(st.local))
      [] st.kind = "export_local" ->
            IF st.name = "default" THEN SetDefaultExport(rec, Local(st.local))
            ELSE AddNamedExport(rec, st.name, Local(st.local))
      [] st.kind = "export_from" ->
            IF st.local = "default"
            THEN SetDefaultExport(rec, ReExportFrom(st.from, ImportedAs(st.name)))
            ELSE AddNamedExport(rec, st.local, ReExportFrom(st.from, ImportedAs(st.name)))
      [] st.kind = "export_namespace_from" -> ExportNamespaceFrom(rec, st)
      [] st.kind = "export_star" ->
            Extracted([rec EXCEPT !.re_export_star_from = Some(Append(StarList(rec), st.from))])

\* the walk over the top-level statements; the first error ends it
RECURSIVE CollectStatements(_, _)
CollectStatements(rec, source) ==
    IF source = <<>> THEN Extracted(rec)
    ELSE LET r == CollectStatement(rec, Head(source))
         IN  IF r.ok THEN CollectStatements(r.rec, Tail(source)) ELSE r

\* collect_symbol_dependency(module_ast, module_src): [ok, rec]; an export of
\* a name the module does not bind is an error
CollectSymbolDependency(source, f) ==
    LET r == CollectStatements(SymbolDependency(f, <<>>, <<>>, None, None), source)
    IN  IF r.ok /\ ~WellFormed(r.rec) THEN ExtractorError(r.rec) ELSE r

\* the statements of a module that refers to the files S
Statements(S) ==
    {Statement("const", "x", "", ""), Statement("export_const", "x", "", ""),
     Statement("export_default_expr", "", "", ""),
     Statement("export_default_ident", "x", "", ""),
     Statement("export_local", "x", "x", ""), Statement("export_local", "x", "default", "")}
    \cup {Statement(k, "n", "x", s) :
            k \in {"import_default", "import_named", "import_namespace"}, s \in S}
    \cup {Statement("export_from", c, b, s) :
            c \in {"z", "default"}, b \in {"x", "default"}, s \in S}
    \cup {Statement("export_namespace_from", N, "", s) : N \in {"z", "default"}, s \in S}
    \cup {Statement("export_star", "", "", s) : s \in S}

\* the modules of at most MaxStatements statements
Sources(S) == UNION {[1..k -> Statements(S)] : k \in 0..MaxStatements}

\* the records the extractor produces for file f
ExtractedRecords(f, sources) ==
    {CollectSymbolDependency(src, f).rec :
        src \in {q \in sources : CollectSymbolDependency(q, f).ok}}

\* file a is any module that refers to b; b exports a constant, a value as
\* default, or both
InitExtract ==
    \E ra \in ExtractedRecords("a", Sources({"b"})),
       rb \in ExtractedRecords("b", {<<Statement("export_const", "x", "", "")>>,
                                     <<Statement("export_default_expr", "", "", "")>>,
                                     <<Statement("export_const", "x", "", ""),
                                       Statement("export_default_expr", "", "", "")>>}) :
        Start([f \in {"a", "b"} |->
                 IF f = "a" THEN File(ra, <<>>, <<>>) ELSE File(rb, <<>>, <<>>)])

SpecExtract == InitExtract /\ [][NextDriver]_vars

----------------------------------------------------------------------------
(* Portable mode: parse_and_export_project_to_portable after its loop *)

\* Portable::new(project_root, translations, i18n table, route table,
\* UsedByGraph::from(&depend_on_graph))
PortableNew ==
    /\ pc = "done"
    /\ portable = None
    /\ portable' = Some(Portable(ProjectRoot, Translations, <<>>, <<>>,
                                 UsedByGraphFrom(depend_on_graph)))
    /\ pc' = "exported"
    /\ UNCHANGED <<project, depend_on_graph, scheduler, db, cur, starIdx, order>>

NextPortable == PortableNew

\* the symbols the depend-on graphs below are made of
PortableNodes ==
    {Symbol(<<"a">>, LocalVariable, "x", 1),
     Symbol(<<"a">>, NamedExport, "x", 1),
     Symbol(<<"b">>, DefaultExport, "", 1)}

\* every depend-on graph over those symbols: any nodes, any edges among them
\* (self loops and cycles included)
DependOnGraphs ==
    {Graph(nodes, edges) : nodes \in SUBSET PortableNodes,
                           edges \in SUBSET (PortableNodes \X PortableNodes)}

\* the state when the loop of portable mode has ended, for any final depend-on graph
InitPortable ==
    /\ project = <<>>
    /\ scheduler = SchedulerNew
    /\ db = DbNew
    /\ pc = "done"
    /\ cur = ""
    /\ starIdx = 1
    /\ order = <<>>
    /\ depend_on_graph \in {g \in DependOnGraphs : \A e \in g.edges : e[1] \in g.nodes /\ e[2] \in g.nodes}
    /\ portable = None

SpecPortable == InitPortable /\ [][NextPortable]_vars

----------------------------------------------------------------------------
(* Scheduler claims *)

Files == DOMAIN project

\* f lies on a cycle of the hard-predecessor graph
OnCycle(f) == OnCycleIn(Files, f)

\* C1 (scheduler safety): every file released so far that is on no
\* hard-predecessor cycle was released after all the files it namespace-imports
\* or star-re-exports, and at the moment a file is handed out those files are
\* marked parsed and have their module row.
C1_SchedulerSafety ==
    /\ \A i \in 1..Len(order) :
        ~OnCycle(order[i]) =>
            \A B \in HardPredecessors(order[i]) : \E j \in 1..(i - 1) : order[j] = B
    /\ (pc = "add_module" /\ ~OnCycle(cur)) =>
            \A B \in HardPredecessors(cur) :
                /\ B \in scheduler.released
                /\ B \in scheduler.parsed
                /\ RemovePrefix(CanonicalPath(B)) \in db.module

\* C1 witness: a file with two hard predecessors, on no cycle, has just been released
C1_Witness ==
    /\ pc = "add_module"
    /\ ~OnCycle(cur)
    /\ Cardinality(HardPredecessors(cur)) = 2

Terminated == pc \in {"done", "failed", "panicked"}

\* C2 (scheduler liveness): the run ends; when it ends without a fatal error,
\* get_one_candidate has returned nothing only after releasing and seeing
\* acknowledged every discovered file, cycles or not.
C2_SchedulerLiveness ==
    <>(Terminated /\ (pc = "done" => /\ scheduler.released = Files
                                     /\ scheduler.parsed = Files
                                     /\ Len(order) = Cardinality(Files)))

\* C2 witness: a run over a project with a hard-predecessor cycle of two files
\* has released everything and ended
C2_Witness ==
    /\ pc = "done"
    /\ scheduler.released = Files
    /\ \E f, g \in Files : f # g /\ f \in HardPredecessors(g) /\ g \in HardPredecessors(f)

\* C3: every candidate handed out is a discovered file, and none is handed out twice.
C3_ReleasedOnce ==
    /\ \A i \in 1..Len(order) : order[i] \in Files
    /\ \A i, j \in 1..Len(order) : order[i] = order[j] => i = j
    /\ scheduler.released = {order[i] : i \in 1..Len(order)}

\* C3 witness: all three files have been handed out
C3_Witness == Len(order) = 3 /\ pc = "done"

\* C4: the remaining count is the number of unreleased candidates at all times
\* and never grows.
C4_TotalRemaining ==
    /\ [](TotalRemaining(scheduler) = Cardinality(Unreleased(scheduler)))
    /\ [][TotalRemaining(scheduler') <= TotalRemaining(scheduler)]_vars

\* C4 witness: two of three files released, the count is down to one
C4_Witness == Len(order) = 2 /\ TotalRemaining(scheduler) = 1

----------------------------------------------------------------------------
(* Graph claims *)

\* the module key of file f
ModuleOf(f) == RemovePrefix(CanonicalPath(f))

\* the (module, variant, name) a symbol row stands for
Key(s) == <<s.module, s.variant, s.name>>

\* the targets of the edges that leave the row s
Out(s) == {e[2] : e \in {d \in db.symbol_dependency : d[1] = s}}

Unresolved(f, from) == ResolvePath(CanonicalPath(f), from) = None

\* the handlers of add_module that have already run for file f
Past(f, stages) == f \in scheduler.parsed \/ (f = cur /\ pc \in stages)
PastLocal(f) ==
    Past(f, {"named", "default", "star", "i18n", "route", "mark", "failed", "panicked"})
PastNamed(f) == Past(f, {"default", "star", "i18n", "route", "mark", "failed", "panicked"})
PastDefault(f) == Past(f, {"star", "i18n", "route", "mark", "failed", "panicked"})

\* the specifiers file f refers to, in any form
Specifiers(f) ==
    LET rec == project[f].symbol_dependency
    IN  {Unwrap(rec.local_variable_table[n].import_from).from :
            n \in {k \in DOMAIN rec.local_variable_table :
                     rec.local_variable_table[k].import_from # None}}
        \cup {rec.named_export_table[n].from :
                n \in {k \in DOMAIN rec.named_export_table :
                         rec.named_export_table[k].tag = "ReExportFrom"}}
        \cup {e.from : e \in {d \in rec.default_export : d.tag = "ReExportFrom"}}
        \cup {StarList(rec)[i] : i \in 1..Len(StarList(rec))}

\* C5 (edge endpoint existence): in every state of the run both endpoints of
\* every depend-on edge are symbol rows, each of a module that has a row.
C5_EdgeEndpoints ==
    \A e \in db.symbol_dependency :
        /\ e[1] \in db.symbol
        /\ e[2] \in db.symbol
        /\ e[1].module \in db.module
        /\ e[2].module \in db.module

\* C5 witness: an edge between symbols of two different modules exists
C5_Witness ==
    \E e \in db.symbol_dependency : e[1].module # e[2].module

\* C6 (resolve-drop): a specifier that does not resolve leaves no module row;
\* the importing local, re-exporting named export or default export of the
\* file is created all the same and gets no edge from that reference (a local
\* keeps just its depend_on edges); no symbol sits on a module that is neither
\* a released file nor the resolved target of a released file's reference; and
\* a file none of whose specifiers resolves is added without error.
C6_ResolveDrop ==
    /\ db.module \subseteq {ModuleOf(f) : f \in Files}
    /\ \A f \in Files :
        LET rec == project[f].symbol_dependency
            m == ModuleOf(f)
        IN  /\ PastLocal(f) =>
                 \A n \in DOMAIN rec.local_variable_table :
                    LET msv == rec.local_variable_table[n]
                    IN  (msv.import_from # None /\ Unresolved(f, Unwrap(msv.import_from).from)) =>
                           /\ Symbol(m, LocalVariable, n, 1) \in db.symbol
                           /\ Out(Symbol(m, LocalVariable, n, 1)) =
                                {Symbol(m, LocalVariable, k, 1) : k \in UNION msv.depend_on}
            /\ PastNamed(f) =>
                 \A n \in DOMAIN rec.named_export_table :
                    LET ex == rec.named_export_table[n]
                    IN  (ex.tag = "ReExportFrom" /\ Unresolved(f, ex.from)) =>
                           /\ Symbol(m, NamedExport, n, 1) \in db.symbol
                           /\ Out(Symbol(m, NamedExport, n, 1)) = {}
            /\ PastDefault(f) =>
                 \A ex \in rec.default_export :
                    (ex.tag = "ReExportFrom" /\ Unresolved(f, ex.from)) =>
                           /\ Symbol(m, DefaultExport, "", 1) \in db.symbol
                           /\ Out(Symbol(m, DefaultExport, "", 1)) = {}
            /\ (f = cur /\ \A from \in Specifiers(f) : Unresolved(f, from)) =>
                 pc \notin {"failed", "panicked"}
    /\ \A s \in db.symbol :
        \E f \in scheduler.released :
            \/ s.module = ModuleOf(f)
            \/ \E from \in Specifiers(f) : ResolvePath(CanonicalPath(f), from) = Some(s.module)

\* C6 witness: the run has ended normally after adding a file whose import and
\* star re-export both name a file that does not exist
C6_Witness ==
    /\ pc = "done"
    /\ \E f \in scheduler.parsed :
        LET rec == project[f].symbol_dependency
        IN  /\ "n" \in DOMAIN rec.local_variable_table
            /\ Unresolved(f, Unwrap(rec.local_variable_table["n"].import_from).from)
            /\ StarList(rec) = <<Missing>>

\* the rows whose declaration is a namespace import or an `export * as`
NamespaceSources ==
    UNION {
        LET rec == project[f].symbol_dependency
        IN  {Symbol(ModuleOf(f), LocalVariable, n, 1) :
                n \in {k \in DOMAIN rec.local_variable_table :
                         /\ rec.local_variable_table[k].import_from # None
                         /\ Unwrap(rec.local_variable_table[k].import_from).from_type = Namespace}}
            \cup {Symbol(ModuleOf(f), NamedExport, n, 1) :
                    n \in {k \in DOMAIN rec.named_export_table :
                             /\ rec.named_export_table[k].tag = "ReExportFrom"
                             /\ rec.named_export_table[k].from_type = Namespace}}
        : f \in Files}

\* C7 (namespace anonymity firewall): no edge that leaves a namespace import
\* or an `export * as` reaches a NamedExport with the reserved name, and a
\* NamedExport row with the reserved name exists only as the one row of a file
\* whose own named-export table declares it: `export * from` mirrors none.
C7_AnonymityFirewall ==
    /\ \A e \in db.symbol_dependency :
        e[1] \in NamespaceSources => ~(e[2].variant = NamedExport /\ e[2].name = Anon)
    /\ \A s \in db.symbol :
        (s.variant = NamedExport /\ s.name = Anon) =>
            /\ s.nth = 1
            /\ \E f \in Files :
                /\ s.module = ModuleOf(f)
                /\ Anon \in DOMAIN project[f].symbol_dependency.named_export_table

\* C7 witness: a file that namespace-imports b has been added after b, whose
\* named exports include the reserved name
C7_Witness ==
    /\ Symbol(ModuleOf("b"), NamedExport, Anon, 1) \in db.symbol
    /\ \E s \in NamespaceSources : s.module = ModuleOf("a") /\ s.variant = LocalVariable
    /\ "b" \in HardPredecessors("a")
    /\ "a" \in scheduler.parsed

\* C8 (symbol uniqueness): no two symbol rows share (module, variant, name).
C8_SymbolUniqueness ==
    \A s, t \in db.symbol : Key(s) = Key(t) => s = t

\* C9 (edge uniqueness): no two edge rows connect the same source symbol
\* (module, variant, name) to the same destination symbol.
C9_EdgeUniqueness ==
    \A e, g \in db.symbol_dependency :
        (Key(e[1]) = Key(g[1]) /\ Key(e[2]) = Key(g[2])) => e = g

\* the names of the NamedExport rows of module m in d, the reserved name left out
MirroredNames(d, m) == {s.name : s \in GetNamedExportSymbols(d, m)} \ {Anon}

\* C10 (star re-export): a step of handle_re_export_star_from whose specifier
\* resolves to B either fails (B has no module row, hence no symbol) and
\* changes nothing, or leaves the current module with a NamedExport(n) row and
\* an edge from it to B's NamedExport(n) for every non-reserved NamedExport
\* name n B had before the step, and creates no module row and no symbol row
\* or edge other than those.
C10_StarReExport ==
    [][(pc = "star" /\ starIdx <= Len(StarList(Rec))
            /\ ~Unresolved(cur, StarList(Rec)[starIdx])) =>
        LET B == Unwrap(ResolvePath(Rec.canonical_path, StarList(Rec)[starIdx]))
            N == MirroredNames(db, B)
        IN  IF pc' = "failed"
            THEN db' = db /\ GetNamedExportSymbols(db, B) = {}
            ELSE /\ \A n \in N :
                      \E e \in db'.symbol_dependency :
                          /\ Key(e[1]) = <<CurModule, NamedExport, n>>
                          /\ Key(e[2]) = <<B, NamedExport, n>>
                          /\ e[1] \in db'.symbol
                 /\ db'.module = db.module
                 /\ \A s \in db'.symbol \ db.symbol :
                      s.module = CurModule /\ s.variant = NamedExport /\ s.name \in N
                 /\ \A e \in db'.symbol_dependency \ db.symbol_dependency :
                      \E n \in N : /\ Key(e[1]) = <<CurModule, NamedExport, n>>
                                   /\ Key(e[2]) = <<B, NamedExport, n>>
       ]_vars

\* C10 witness: a star re-export step has just mirrored a named export of
\* another module onto the current one
C10_Witness ==
    /\ pc = "star"
    /\ starIdx > 1
    /\ ~Unresolved(cur, StarList(Rec)[starIdx - 1])
    /\ \E e \in db.symbol_dependency :
        /\ e[1].module = CurModule
        /\ e[1].variant = NamedExport
        /\ e[2].variant = NamedExport
        /\ e[2].module # CurModule
        /\ e[2].module = Unwrap(ResolvePath(Rec.canonical_path, StarList(Rec)[starIdx - 1]))
        /\ e[1].name = e[2].name


\* the file whose module key is m
FileOf(m) == CHOOSE f \in Files : ModuleOf(f) = m

\* the locals of a record declared by `import * as n from S`
NamespaceLocals(rec) ==
    {k \in DOMAIN rec.local_variable_table :
        /\ rec.local_variable_table[k].import_from # None
        /\ Unwrap(rec.local_variable_table[k].import_from).from_type = Namespace}

\* the specifier of the import that declares the local n of a record
ImportSpecifier(rec, n) == Unwrap(rec.local_variable_table[n].import_from).from

\* the non-reserved keys of the named-export table of file f
DeclaredExports(f) == DOMAIN project[f].symbol_dependency.named_export_table \ {Anon}

\* the edges of d that leave the row s
EdgesFrom(d, s) == {e \in d.symbol_dependency : e[1] = s}

\* what handle_local_variable_table leaves for the namespace import n of the
\* current module, whose specifier resolves to B: one edge per NamedExport
\* row B had when the step began, the reserved name left out, and no other
ExpandedExactly(n, B) ==
    EdgesFrom(db', Symbol(CurModule, LocalVariable, n, 1)) =
        {<<Symbol(CurModule, LocalVariable, n, 1), s>> :
            s \in {t \in GetNamedExportSymbols(db, B) : t.name # Anon}}

\* every non-reserved key of B's own named-export table is the name of a
\* target of the edges that now leave the namespace import n
CoversDeclared(n, B) ==
    \A k \in DeclaredExports(FileOf(B)) :
        \E e \in EdgesFrom(db', Symbol(CurModule, LocalVariable, n, 1)) :
            Key(e[2]) = <<B, NamedExport, k>>

C12_Inversion ==
    \A doc \in portable :
        /\ \A s, t \in PortableNodes :
              <<t, s>> \in doc.used_by_graph.edges <=> <<s, t>> \in depend_on_graph.edges
        /\ doc.used_by_graph.edges \subseteq PortableNodes \X PortableNodes
        /\ doc.used_by_graph.nodes = depend_on_graph.nodes
        /\ UsedByGraphFrom(doc.used_by_graph) = depend_on_graph

\* C12 witness: the document has been built from a graph with an isolated node
\* and an edge between two other nodes
C12_Witness ==
    /\ portable # None
    /\ \E e \in depend_on_graph.edges : e[1] # e[2]
    /\ \E n \in depend_on_graph.nodes :
        \A e \in depend_on_graph.edges : e[1] # n /\ e[2] # n


\* the symbols file f declares
DeclaredLocals(f) ==
    {Symbol(ModuleOf(f), LocalVariable, n, 1) :
        n \in DOMAIN project[f].symbol_dependency.local_variable_table}
DeclaredNamedExports(f) ==
    {Symbol(ModuleOf(f), NamedExport, n, 1) :
        n \in DOMAIN project[f].symbol_dependency.named_export_table}
DeclaredDefaultExport(f) ==
    {Symbol(ModuleOf(f), DefaultExport, "", 1) :
        e \in project[f].symbol_dependency.default_export}
DeclaredSymbols(f) ==
    DeclaredLocals(f) \cup DeclaredNamedExports(f) \cup DeclaredDefaultExport(f)

\* add_module has returned Ok for file f
Added(f) == f \in scheduler.parsed \/ (f = cur /\ pc \in {"i18n", "route", "mark"})

\* C13 as stated (declared-symbol completeness): a module that has a module
\* row has a symbol row for every local, named export and default export it
\* declares. Read here in the states between two add_module calls only, the
\* weakest reading of "every reachable graph state".
C13_DeclaredSymbolsAsStated ==
    pc = "next" =>
        \A f \in Files : ModuleOf(f) \in db.module => DeclaredSymbols(f) \subseteq db.symbol

\* C13 amended (declared-symbol completeness): in every state, a module for
\* which add_module has returned has a symbol row for every local, named
\* export and default export it declares (each kind from the moment its
\* handler has run), so when the run ends normally every module row has them.
C13_DeclaredSymbols ==
    /\ \A f \in Files :
        /\ PastLocal(f) => DeclaredLocals(f) \subseteq db.symbol
        /\ PastNamed(f) => DeclaredNamedExports(f) \subseteq db.symbol
        /\ PastDefault(f) => DeclaredDefaultExport(f) \subseteq db.symbol
        /\ Added(f) => ModuleOf(f) \in db.module /\ DeclaredSymbols(f) \subseteq db.symbol
    /\ pc = "done" =>
        \A m \in db.module : \E f \in Files : m = ModuleOf(f) /\ DeclaredSymbols(f) \subseteq db.symbol

\* C13 witness: the run has ended normally; a module declares a local, a
\* re-export of a missing file and a default export, the last two without edges
C13_Witness ==
    /\ pc = "done"
    /\ \E f \in Files :
        /\ Cardinality(DeclaredLocals(f)) >= 1
        /\ \E s \in DeclaredNamedExports(f) : Out(s) = {}
        /\ \E s \in DeclaredDefaultExport(f) : Out(s) = {}


\* candidates remain and none of them has all its hard predecessors released
NoneReleasable(s) ==
    /\ Unreleased(s) # {}
    /\ \A f \in Unreleased(s) : ~(HardPredecessors(f) \subseteq s.released)

\* C14 (cycle policy): when candidates remain and none has all its hard
\* predecessors released, get_one_candidate returns a candidate, and it is the
\* lexicographically smallest unreleased file that lies on a cycle of
\* unreleased files: one choice only, so the order is determined.
C14_CyclePolicy ==
    [][(pc = "next" /\ NoneReleasable(scheduler)) =>
        /\ pc' = "add_module"
        /\ cur' \in Unreleased(scheduler)
        /\ OnCycleIn(Unreleased(scheduler), cur')
        /\ \A g \in Unreleased(scheduler) :
              OnCycleIn(Unreleased(scheduler), g) => Rank(cur') <= Rank(g)
        /\ Cardinality(Candidates(scheduler)) = 1
       ]_vars

\* C14 witness: a waits for b, b and c wait for each other; b, the smallest
\* file of the cycle, has been released first
C14_Witness ==
    /\ pc = "add_module"
    /\ order = <<"b">>
    /\ HardPredecessors("a") = {"b"}
    /\ "c" \in HardPredecessors("b")
    /\ "b" \in HardPredecessors("c")


\* the current module was released before one of the files it namespace-imports
\* or star-re-exports
ReleasedBeforePredecessor ==
    /\ cur # ""
    /\ \E B \in HardPredecessors(cur) : B \notin scheduler.released

\* C15 (cycle tolerance): a module released by the cycle break before a file
\* it namespace-imports or star-re-exports is added without error.
C15_CycleTolerance ==
    ReleasedBeforePredecessor => pc \notin {"failed", "panicked"}


\* the names of the map i18n_usage that have a LocalVariable row on module m
KnownSymbol(m, n) == GetSymbol(db, m, LocalVariable, n) # None

\* C16 (unknown translation key): add_i18n_usage never links a key that has no
\* translation row; when every symbol of the map exists it succeeds, whatever
\* the keys, and the links it adds are exactly those of each symbol with each
\* of its keys that is in the table; nothing else changes.
C16_UnknownTranslationKey ==
    [][pc = "i18n" =>
        LET i18n_usage == project[cur].i18n_usage
        IN  /\ \A l \in db'.translation_usage : l[1] \in db.translation
            /\ (\A n \in DOMAIN i18n_usage : KnownSymbol(CurModule, n)) =>
                  /\ pc' = "route"
                  /\ db'.translation_usage = db.translation_usage \cup
                        UNION {{<<k, Symbol(CurModule, LocalVariable, n, 1)>> :
                                   k \in i18n_usage[n] \cap db.translation} :
                               n \in DOMAIN i18n_usage}
            /\ [db' EXCEPT !.translation_usage = db.translation_usage] = db
            /\ UNCHANGED <<project, scheduler, cur, order>>
       ]_vars

\* C16 witness: add_i18n_usage has succeeded for a symbol with a key of the
\* table and a key that is not in it, and has linked the former
C16_Witness ==
    /\ pc = "route"
    /\ "x" \in DOMAIN project[cur].i18n_usage
    /\ project[cur].i18n_usage["x"] = {"hello", "nokey"}
    /\ <<"hello", Symbol(CurModule, LocalVariable, "x", 1)>> \in db.translation_usage

\* the targets of the routes of a list
RouteTargets(route_usage) ==
    UNION {{route_usage[i].depend_on[j] : j \in 1..Len(route_usage[i].depend_on)} :
             i \in 1..Len(route_usage)}

\* C17 (unknown symbol for overlay): when the i18n usage or a route of the
\* current module names a symbol with no LocalVariable row on it, the call
\* fails; no link to a symbol of that name exists afterwards, every link
\* points to an existing symbol row, the run stops there and the module is
\* never marked parsed.
C17_UnknownSymbolForOverlay ==
    /\ [](pc = "failed" => cur \notin scheduler.parsed)
    /\ [][/\ pc # "failed"
          /\ \A l \in db'.translation_usage \cup db'.route_usage : l[2] \in db'.symbol
          /\ pc = "i18n" =>
                \A n \in DOMAIN project[cur].i18n_usage :
                    ~KnownSymbol(CurModule, n) =>
                        /\ pc' = "failed"
                        /\ \A l \in db'.translation_usage :
                              ~(l[2].module = CurModule /\ l[2].name = n)
          /\ pc = "route" =>
                \A n \in RouteTargets(project[cur].route_usage) :
                    ~KnownSymbol(CurModule, n) =>
                        /\ pc' = "failed"
                        /\ \A l \in db'.route_usage :
                              ~(l[2].module = CurModule /\ l[2].name = n)
         ]_vars

\* C17 witness: add_route_usage has failed on a route whose first target
\* exists and whose second does not, after linking the first
C17_Witness ==
    /\ pc = "failed"
    /\ cur \notin scheduler.parsed
    /\ \E l \in db.route_usage : l[2] = Symbol(CurModule, LocalVariable, "x", 1)
    /\ "q" \in RouteTargets(project[cur].route_usage)


\* C18 (quiescent materialization): while unreleased candidates remain, no
\* symbol, edge or overlay record has been written to the output database and
\* no portable document has been built.
C18_QuiescentMaterialization ==
    Unreleased(scheduler) # {} =>
        /\ db.symbol = {}
        /\ db.symbol_dependency = {}
        /\ db.translation_usage = {}
        /\ db.route_usage = {}
        /\ portable = None


\* C19 (module identity): a specifier that the path resolver maps to the
\* canonical path of file f gives every importer the key add_module stores f
\* under; so every module row, created by an importer or by add_module, is
\* the one row of a file, the current module's among them, and every symbol
\* hangs on such a row.
C19_ModuleIdentity ==
    /\ \A g \in Files : \A from \in Specifiers(g) :
          \A p \in PathResolverResolve(CanonicalPath(g), from) :
              \E f \in Files :
                  /\ project[f].symbol_dependency.canonical_path = p
                  /\ ResolvePath(CanonicalPath(g), from) = {ModuleOf(f)}
    /\ db.module \subseteq {ModuleOf(f) : f \in Files}
    /\ \A f, g \in Files : ModuleOf(f) = ModuleOf(g) => f = g
    /\ cur # "" => CurModule = ModuleOf(cur)
    /\ \A s \in db.symbol : s.module \in db.module

\* C19 witness: the module row of b was created by the importer a, then b was
\* processed itself; there are two module rows
C19_Witness ==
    /\ order = <<"a", "b">>
    /\ pc = "done"
    /\ "b" \in Specifiers("a")
    /\ \E s \in db.symbol : s.module = ModuleOf("b") /\ s.variant = LocalVariable
    /\ \E e \in db.symbol_dependency : e[1].module = ModuleOf("a") /\ e[2].module = ModuleOf("b")
    /\ Cardinality(db.module) = 2


\* the symbol rows a step adds to the current module
NewOwnRows == {s \in db'.symbol \ db.symbol : s.module = CurModule}

\* C20 (entry-point order): add_module runs get_or_create_module, then the
\* local-variable table (after it every declared local exists, and it adds
\* only locals to the module), then the named-export table, then the default
\* export, then the star re-exports one specifier after the other; the step
\* after the default export is the star re-exports exactly when the default
\* export did not fail, a star specifier that fails changes nothing, and no
\* step at all follows a failure.
C20_EntryPointOrder ==
    [][/\ pc \notin {"failed", "panicked"}
       /\ pc = "add_module" => pc' = "local" /\ db'.symbol = db.symbol
       /\ pc = "local" =>
             /\ pc' = "named"
             /\ DeclaredLocals(cur) \subseteq db'.symbol
             /\ \A s \in NewOwnRows : s.variant = LocalVariable
       /\ pc = "named" =>
             /\ pc' = "default"
             /\ DeclaredLocals(cur) \subseteq db.symbol
             /\ DeclaredNamedExports(cur) \subseteq db'.symbol
             /\ \A s \in NewOwnRows : s.variant = NamedExport
       /\ pc = "default" =>
             /\ pc' = IF HandleDefaultExport(db, CurModule, Rec).ok THEN "star" ELSE "panicked"
             /\ DeclaredNamedExports(cur) \subseteq db.symbol
             /\ DeclaredDefaultExport(cur) \subseteq db'.symbol
             /\ \A s \in NewOwnRows : s.variant = DefaultExport
       /\ pc = "star" =>
             /\ DeclaredDefaultExport(cur) \subseteq db.symbol
             /\ \A s \in NewOwnRows : s.variant = NamedExport
             /\ IF starIdx <= Len(StarList(Rec))
                THEN /\ starIdx' = starIdx + 1
                     /\ pc' = IF ReExportStarFrom(db, CurModule, Rec, StarList(Rec)[starIdx]).ok
                              THEN "star" ELSE "failed"
                     /\ pc' = "failed" => db' = db
                ELSE pc' = "i18n" /\ db' = db
      ]_vars

\* C20 witness: the default export of the current module has failed; its star
\* re-export of a module with named exports was never run
C20_Witness ==
    /\ pc = "panicked"
    /\ Len(StarList(Rec)) >= 1
    /\ ~Unresolved(cur, StarList(Rec)[1])
    /\ MirroredNames(db, Unwrap(ResolvePath(Rec.canonical_path, StarList(Rec)[1]))) # {}
    /\ GetNamedExportSymbols(db, CurModule) = {}


----------------------------------------------------------------------------
(* Order claims *)

\* no file has a namespace import, an `export * as` or a star re-export
NamedAndDefaultOnly ==
    \A f \in Files :
        LET rec == project[f].symbol_dependency
        IN  /\ HardSpecifiers(rec) = {}
            /\ \A e \in rec.default_export :
                  e.tag = "ReExportFrom" => e.from_type.tag \in {"Named", "Default"}

\* the row of module B a Named(n) or Default reference points at
TargetOf(B, from_type) ==
    IF from_type.tag = "Named" THEN Symbol(B, NamedExport, from_type.name, 1)
    ELSE Symbol(B, DefaultExport, "", 1)

\* the reference (from, from_type) of row src of file f, if it resolves, has
\* the target's module row, the target row and the edge
LazilyLinked(src, f, from, from_type) ==
    \A B \in ResolvePath(CanonicalPath(f), from) :
        /\ B \in db.module
        /\ TargetOf(B, from_type) \in db.symbol
        /\ <<src, TargetOf(B, from_type)>> \in db.symbol_dependency

\* the tables the loop ends with when the scheduler hands out the smallest
\* candidate each time
CanonicalRun == RunLoop(SchedulerNew, DbNew)

\* C21 (lazy-node order independence): in a project whose cross-module
\* references are all Named or Default, every handler that has run has left,
\* for each resolvable reference, the target's NamedExport(n) / DefaultExport("")
\* row and the edge to it, whether the target was processed before or not; the
\* run never fails; and when the loop ends the module, symbol and edge tables
\* are those of the run in lexicographic order, whatever order was taken.
C21_LazyNodeOrderIndependence ==
    NamedAndDefaultOnly =>
        /\ pc \notin {"failed", "panicked"}
        /\ \A f \in Files :
            LET rec == project[f].symbol_dependency
                m == ModuleOf(f)
            IN  /\ PastLocal(f) =>
                    \A n \in DOMAIN rec.local_variable_table :
                        \A fom \in rec.local_variable_table[n].import_from :
                            LazilyLinked(Symbol(m, LocalVariable, n, 1), f, fom.from, fom.from_type)
                /\ PastNamed(f) =>
                    \A n \in DOMAIN rec.named_export_table :
                        LET ex == rec.named_export_table[n]
                        IN  ex.tag = "ReExportFrom" =>
                                LazilyLinked(Symbol(m, NamedExport, n, 1), f, ex.from, ex.from_type)
                /\ PastDefault(f) =>
                    \A ex \in rec.default_export :
                        ex.tag = "ReExportFrom" =>
                            LazilyLinked(Symbol(m, DefaultExport, "", 1), f, ex.from, ex.from_type)
        /\ pc = "done" => db = CanonicalRun.db

\* C21 witness: b was processed before a; b re-exports a name of a and a
\* refers to b, so each file's row was created by the other or found by it
C21_Witness ==
    /\ NamedAndDefaultOnly
    /\ pc = "done"
    /\ order = <<"b", "a">>
    /\ \E e \in db.symbol_dependency : e[1].module = ModuleOf("a") /\ e[2].module = ModuleOf("b")
    /\ \E e \in db.symbol_dependency : e[1].module = ModuleOf("b") /\ e[2].module = ModuleOf("a")
    /\ \E s \in db.symbol :
        s.module = ModuleOf("b") /\ s.variant # LocalVariable /\ s \notin DeclaredSymbols("b")


\* the positions at which the driver function has returned an error or panicked
Stopped == {"unparsed", "failed", "panicked"}

\* the candidates handed out and not yet acknowledged
InFlight == scheduler.released \ scheduler.parsed

\* what a pass over file f that returned Ok from add_module, add_i18n_usage and
\* add_route_usage has left in the tables
Collected(f) ==
    LET m == ModuleOf(f)
    IN  /\ m \in db.module
        /\ DeclaredSymbols(f) \subseteq db.symbol
        /\ \A n \in DOMAIN project[f].i18n_usage :
            /\ Symbol(m, LocalVariable, n, 1) \in db.symbol
            /\ \A k \in project[f].i18n_usage[n] \cap db.translation :
                  <<k, Symbol(m, LocalVariable, n, 1)>> \in db.translation_usage
        /\ \A i \in 1..Len(project[f].route_usage) :
            LET route == project[f].route_usage[i]
            IN  /\ route.path \in db.route
                /\ \A j \in 1..Len(route.depend_on) :
                      /\ Symbol(m, LocalVariable, route.depend_on[j], 1) \in db.symbol
                      /\ <<route.path, Symbol(m, LocalVariable, route.depend_on[j], 1)>>
                            \in db.route_usage

\* C22 (driver protocol): in every state at most one candidate is released and
\* not marked parsed, and it is the one being worked on; every file marked
\* parsed has its module row, its declared symbols, its translation usages and
\* its route usages. A candidate is marked parsed only by the step that follows
\* its route collection, after extraction, add_module, add_i18n_usage and
\* add_route_usage returned Ok; a candidate is requested only when none is in
\* flight; and once one of the steps has failed the driver takes no further
\* step, the failed candidate staying unacknowledged.
C22_DriverProtocol ==
    /\ [](/\ Cardinality(InFlight) <= 1
          /\ InFlight \subseteq {cur}
          /\ \A f \in scheduler.parsed : Collected(f)
          /\ pc \in Stopped => InFlight = {cur})
    /\ [][/\ scheduler'.parsed # scheduler.parsed =>
                /\ pc = "mark"
                /\ InFlight = {cur}
                /\ scheduler'.parsed = scheduler.parsed \cup {cur}
                /\ Collected(cur)
          /\ scheduler'.released # scheduler.released =>
                /\ pc = "next"
                /\ InFlight = {}
                /\ \E c \in Files \ scheduler.released :
                      scheduler'.released = scheduler.released \cup {c}
          /\ pc \notin Stopped]_vars

\* C22 witness: a file with translation and route usages has been marked
\* parsed and the next candidate is in flight
C22_Witness ==
    /\ \E f \in scheduler.parsed :
        /\ project[f].i18n_usage # <<>>
        /\ project[f].route_usage # <<>>
        /\ db.translation_usage # {}
        /\ db.route_usage # {}
    /\ Cardinality(InFlight) = 1
    /\ pc = "mark"


\* the default export of file f re-exports a namespace
DefaultExportsNamespace(f) ==
    \E e \in project[f].symbol_dependency.default_export :
        e.tag = "ReExportFrom" /\ e.from_type.tag = "Namespace"

\* C23 (default-export namespace exclusion): no record the extractor hands to
\* the graph builder has default_export = ReExportFrom{_, Namespace}, and
\* handle_default_export never enters its unreachable!() arm.
C23_DefaultExportNamespaceExclusion ==
    /\ \A f \in Files : ~DefaultExportsNamespace(f)
    /\ pc # "panicked"

\* C23 witness: handle_default_export has returned for a file whose default
\* export is a re-export and which also has an `export * as z from`
C23_Witness ==
    /\ pc = "star"
    /\ \E e \in Rec.default_export : e.tag = "ReExportFrom"
    /\ \E n \in DOMAIN Rec.named_export_table :
        /\ Rec.named_export_table[n].tag = "ReExportFrom"
        /\ Rec.named_export_table[n].from_type.tag = "Namespace"
    /\ \E e \in db.symbol_dependency : e[1] = Symbol(CurModule, DefaultExport, "", 1)


\* file f has `export * from` a specifier that resolves to file g
StarReExports(f, g) ==
    \E i \in 1..Len(StarList(project[f].symbol_dependency)) :
        ResolvePath(CanonicalPath(f), StarList(project[f].symbol_dependency)[i])
            = Some(ModuleOf(g))

\* no file lies on a cycle of namespace imports and star re-exports
Acyclic == \A f \in Files : ~OnCycle(f)

\* module A has a NamedExport(n) row with an edge to a NamedExport(n) row of
\* module B that has an edge to the NamedExport(n) row of module C
StarChain(A, B, C, n) ==
    \E sa \in SymbolRows(db, A, NamedExport, n), sb \in SymbolRows(db, B, NamedExport, n) :
        /\ <<sa, sb>> \in db.symbol_dependency
        /\ <<sb, Symbol(C, NamedExport, n, 1)>> \in db.symbol_dependency

\* C24 (star re-export transitivity): in an acyclic project the run does not
\* fail, and when it has ended, for all files A, B, C with `export * from B`
\* in A and `export * from C` in B, every named export n that C declares,
\* the reserved name excepted, has the chain
\* A:NamedExport(n) -> B:NamedExport(n) -> C:NamedExport(n); the reserved name
\* is on no module but the one that declares it.
C24_StarTransitivity ==
    Acyclic =>
        /\ pc # "failed"
        /\ pc = "done" =>
            \A A, B, C \in Files :
                (StarReExports(A, B) /\ StarReExports(B, C)) =>
                    /\ \A n \in DOMAIN project[C].symbol_dependency.named_export_table \ {Anon} :
                          StarChain(ModuleOf(A), ModuleOf(B), ModuleOf(C), n)
                    /\ Anon \in DOMAIN project[C].symbol_dependency.named_export_table =>
                          /\ Anon \notin DOMAIN project[B].symbol_dependency.named_export_table =>
                                SymbolRows(db, ModuleOf(B), NamedExport, Anon) = {}
                          /\ Anon \notin DOMAIN project[A].symbol_dependency.named_export_table =>
                                SymbolRows(db, ModuleOf(A), NamedExport, Anon) = {}

\* C24 witness: a star-re-exports b, b star-re-exports c, c declares the named
\* export x and the run has ended; a has the mirrored row
C24_Witness ==
    /\ pc = "done"
    /\ Acyclic
    /\ StarReExports("a", "b") /\ StarReExports("b", "c")
    /\ "x" \in DOMAIN project["c"].symbol_dependency.named_export_table
    /\ DOMAIN project["a"].symbol_dependency.named_export_table = {}
    /\ DOMAIN project["b"].symbol_dependency.named_export_table = {}
    /\ StarChain(ModuleOf("a"), ModuleOf("b"), ModuleOf("c"), "x")


\* C25 (schedule determinism): whenever the run has ended, its outcome and its
\* module, symbol and edge tables are those of the run in which the scheduler
\* hands out the smallest candidate each time.
C25_ScheduleDeterminism ==
    Terminated => pc = CanonicalRun.pc /\ db = CanonicalRun.db

====
